---- MODULE Spec2Model ----
(***************************************************************************)
(* A model of TronGame (game.ts): the auto-playing Tron light-cycle game   *)
(* on the 52 x 7 contribution grid.  One TronGame object, driven by the    *)
(* animation-frame loop of renderer.ts, which calls update(currentTime)    *)
(* once per frame.                                                         *)
(*                                                                         *)
(* Time is in milliseconds.  Math.random() is an input: each call draws a  *)
(* rational <<num, den>> in [0,1) from RandomDraws.  Scores are integers   *)
(* (all features and weights are), so the softmax of makeAIDecision is     *)
(* computed on score gaps in fixed point; see ExpTable.                    *)
(***************************************************************************)
EXTENDS Integers, Sequences, FiniteSets

VARIABLES
    state,            \* GameState: "PLAYING" or "RESTARTING"
    score,            \* this.score
    speed,            \* this.speed: the tick interval, ms
    lastMoveTime,     \* this.lastMoveTime
    restartTime,      \* this.restartTime
    gameStartTime,    \* this.gameStartTime
    frameCount,       \* this.frameCount
    cycles,           \* this.cycles: sequence of four LightCycle records
    trailGrid,        \* this.trailGrid[y][x]: 0 or a cycle id
    explosions,       \* the createExplosion calls since the last reset
    now,              \* the clock: performance.now() and the frame timestamp
    frameInterval     \* the period of the animation-frame driver

vars == <<state, score, speed, lastMoveTime, restartTime, gameStartTime,
          frameCount, cycles, trailGrid, explosions, now, frameInterval>>

----------------------------------------------------------------------------
(* Program constants *)

GridWidth == 52
GridHeight == 7
restartDelay == 1000
InitialSpeed == 200
MinSpeed == 80
SpeedStep == 20
MemoryLimit == 20
Lookahead == 10
NumCycles == 4
\* Math.exp(score / 0.5) is Infinity from this score on (exp overflows above
\* 709.78), which makes every probability NaN or 0.
ExpOverflowScore == 355

(* Bounds of the model *)

\* the clock stops at MaxTime
MaxTime == 13400
FrameShort == 100
FrameLong == 250
\* a frame loop that is throttled (a page in the background): the frames are
\* far apart, and that clock stops at MaxTimeSparse
FrameSparse == 20000
MaxTimeSparse == 80000

FrameIntervals == {FrameShort, FrameLong, FrameSparse}

\* The values Math.random() returns in the model, as <<numerator, denominator>>.
RandomDraws == {<<1, 10>>, <<3, 10>>, <<6, 10>>, <<9, 10>>}

----------------------------------------------------------------------------
(* Directions and positions *)

PLAYING == "PLAYING"
RESTARTING == "RESTARTING"

allDirections == <<"UP", "DOWN", "LEFT", "RIGHT">>
Direction == {"UP", "DOWN", "LEFT", "RIGHT"}

Point(px, py) == [x |-> px, y |-> py]

Abs(n) == IF n < 0 THEN -n ELSE n
Min(a, b) == IF a < b THEN a ELSE b
Max(a, b) == IF a > b THEN a ELSE b

getOppositeDirection(direction) ==
    CASE direction = "UP" -> "DOWN"
      [] direction = "DOWN" -> "UP"
      [] direction = "LEFT" -> "RIGHT"
      [] direction = "RIGHT" -> "LEFT"

\* Variant of getNextPositionInDirection with the vertical axis upside down.
getNextPositionUpsideDown(pos, direction) ==
    CASE direction = "UP" -> Point(pos.x, pos.y + 1)
      [] direction = "DOWN" -> Point(pos.x, pos.y - 1)
      [] direction = "LEFT" -> Point(pos.x - 1, pos.y)
      [] direction = "RIGHT" -> Point(pos.x + 1, pos.y)

getNextPositionInDirection(pos, direction) ==
    CASE direction = "UP" -> Point(pos.x, pos.y - 1)
      [] direction = "DOWN" -> Point(pos.x, pos.y + 1)
      [] direction = "LEFT" -> Point(pos.x - 1, pos.y)
      [] direction = "RIGHT" -> Point(pos.x + 1, pos.y)

isValidPosition(pos) ==
    pos.x >= 0 /\ pos.x < GridWidth /\ pos.y >= 0 /\ pos.y < GridHeight

\* Variant of checkCollision that checks the columns only: a position above or
\* below the grid counts as free.
checkCollisionColumnsOnly(tg, position) ==
    IF position.x < 0 \/ position.x >= GridWidth THEN TRUE
    ELSE IF position.y < 0 \/ position.y >= GridHeight THEN FALSE
    ELSE tg[position.y][position.x] # 0

\* Variant of checkCollision without its bounds check.
checkCollisionNoBounds(tg, position) ==
    IF ~isValidPosition(position) THEN FALSE
    ELSE tg[position.y][position.x] # 0

\* checkCollision on the trail grid tg (the grid as it is at that point of a tick)
checkCollision(tg, position) ==
    IF ~isValidPosition(position) THEN TRUE
    ELSE tg[position.y][position.x] # 0

\* The activity grid handed to the constructor: a fixed 7 x 52 matrix of 0..4.
grid == [y \in 0..(GridHeight - 1) |-> [x \in 0..(GridWidth - 1) |-> (x * y) % 5]]

EmptyTrail == [y \in 0..(GridHeight - 1) |-> [x \in 0..(GridWidth - 1) |-> 0]]

getStartPositions == <<Point(8, 1), Point(43, 1), Point(8, 5), Point(43, 5)>>

\* directions[Math.floor(Math.random() * directions.length)]
getRandomDirection(r) == allDirections[((r[1] * 4) \div r[2]) + 1]

----------------------------------------------------------------------------
(* The decision engine *)

\* Variant of getSafeDirections without the "can't reverse" filter.
getSafeDirectionsReversing(tg, cycle) ==
    SelectSeq(allDirections,
              LAMBDA dir:
                  ~checkCollision(tg, getNextPositionInDirection(cycle.position, dir)))

getSafeDirections(tg, cycle) ==
    SelectSeq(allDirections,
              LAMBDA dir:
                  /\ getOppositeDirection(cycle.direction) # dir
                  /\ ~checkCollision(tg, getNextPositionInDirection(cycle.position, dir)))

\* Variant of countFutureOptions without the filter on the opposite direction.
countFutureOptionsAllFour(tg, pos, currentDir) ==
    Cardinality({dir \in Direction :
                    ~checkCollision(tg, getNextPositionInDirection(pos, dir))})

countFutureOptions(tg, pos, currentDir) ==
    Cardinality({dir \in Direction :
                    /\ dir # getOppositeDirection(currentDir)
                    /\ ~checkCollision(tg, getNextPositionInDirection(pos, dir))})

countOpenSpaceAround(tg, pos, radius) ==
    Cardinality({d \in (-radius..radius) \X (-radius..radius) :
                    /\ ~(d[1] = 0 /\ d[2] = 0)
                    /\ isValidPosition(Point(pos.x + d[1], pos.y + d[2]))
                    /\ ~checkCollision(tg, Point(pos.x + d[1], pos.y + d[2]))})

\* Variant of feature 1 without the horizon: it counts up to the first blocked
\* cell however far that is.
RECURSIVE safetyDistanceUncapped(_, _, _, _)
safetyDistanceUncapped(tg, checkPos, direction, i) ==
    IF checkCollision(tg, checkPos) THEN 0
    ELSE 1 + safetyDistanceUncapped(tg, getNextPositionInDirection(checkPos, direction),
                                    direction, i + 1)

\* Feature 1 of extractFeatures: the loop "for (i = 0; i < 10; i++)" from checkPos
RECURSIVE safetyDistanceFrom(_, _, _, _)
safetyDistanceFrom(tg, checkPos, direction, i) ==
    IF i >= Lookahead \/ checkCollision(tg, checkPos) THEN 0
    ELSE 1 + safetyDistanceFrom(tg, getNextPositionInDirection(checkPos, direction),
                                direction, i + 1)

\* this.grid[nextPos.y]?.[nextPos.x] <= 1 : undefined <= 1 is false
explorationAt(nextPos) ==
    IF isValidPosition(nextPos) /\ grid[nextPos.y][nextPos.x] <= 1 THEN 1 ELSE 0

extractFeatures(tg, cycle, direction) ==
    LET nextPos == getNextPositionInDirection(cycle.position, direction)
        recentlyVisited ==
            Cardinality({k \in 1..Len(cycle.pathfindingMemory) :
                            /\ Abs(cycle.pathfindingMemory[k].x - nextPos.x) <= 2
                            /\ Abs(cycle.pathfindingMemory[k].y - nextPos.y) <= 2})
    IN  [safetyDistance |-> safetyDistanceFrom(tg, nextPos, direction, 0),
         openSpace |-> countOpenSpaceAround(tg, nextPos, 2),
         edgeDistance |-> Min(Min(nextPos.x, (GridWidth - 1) - nextPos.x),
                              Min(nextPos.y, (GridHeight - 1) - nextPos.y)),
         pathDiversity |-> Max(0, 10 - recentlyVisited),
         continuity |-> IF direction = cycle.direction THEN 1 ELSE 0,
         exploration |-> explorationAt(nextPos),
         avoidance |-> IF checkCollision(tg, nextPos) THEN 1 ELSE 0,
         futureOptions |-> countFutureOptions(tg, nextPos, direction)]

\* Variant of neuralEvaluateDirection with the weights of the first two
\* features exchanged.
neuralEvaluateDirectionSwapped(tg, cycle, direction) ==
    LET features == extractFeatures(tg, cycle, direction)
    IN  features.safetyDistance * 8
        + features.openSpace * 15
        + features.edgeDistance * 5
        + features.pathDiversity * 3
        + features.continuity * 2
        + features.exploration * 4
        + features.avoidance * (-20)
        + features.futureOptions * 6

neuralEvaluateDirection(tg, cycle, direction) ==
    LET features == extractFeatures(tg, cycle, direction)
    IN  features.safetyDistance * 15
        + features.openSpace * 8
        + features.edgeDistance * 5
        + features.pathDiversity * 3
        + features.continuity * 2
        + features.exploration * 4
        + features.avoidance * (-20)
        + features.futureOptions * 6

\* evaluations.sort((a, b) => b.score - a.score): descending, stable.
\* insertSorted puts e behind every entry whose score is not smaller.
RECURSIVE insertSorted(_, _)
insertSorted(sorted, e) ==
    IF sorted = <<>> THEN <<e>>
    ELSE IF Head(sorted).score >= e.score
         THEN <<Head(sorted)>> \o insertSorted(Tail(sorted), e)
         ELSE <<e>> \o sorted

RECURSIVE sortEvaluations(_)
sortEvaluations(evals) ==
    IF evals = <<>> THEN <<>>
    ELSE insertSorted(sortEvaluations(SubSeq(evals, 1, Len(evals) - 1)), evals[Len(evals)])

\* 10^6 * exp(-gap / 0.5) for gap = 1..7, rounded; below 10^-6 the weight is 0
ExpTable == <<135335, 18316, 2479, 335, 45, 6, 1>>

ExpWeight(gap) ==
    IF gap = 0 THEN 1000000
    ELSE IF gap <= Len(ExpTable) THEN ExpTable[gap] ELSE 0

\* cumulative after entry i of the sorted evaluations, in units of sumExp / 10^6
RECURSIVE cumulativeTo(_, _)
cumulativeTo(evaluations, i) ==
    IF i = 0 THEN 0
    ELSE cumulativeTo(evaluations, i - 1)
         + ExpWeight(evaluations[1].score - evaluations[i].score)

\* the value that stands for NaN among the probabilities (none is negative)
NaN == -1

\* probabilities[i] = expScores[i] / sumExp of the sorted evaluations, in
\* thousandths, rounded down.  From ExpOverflowScore on Math.exp is Infinity:
\* then sumExp is Infinity, Infinity / Infinity is NaN and a finite
\* exponential divided by Infinity is 0.
probabilityOf(evaluations, i) ==
    IF evaluations[1].score >= ExpOverflowScore
    THEN IF evaluations[i].score >= ExpOverflowScore THEN NaN ELSE 0
    ELSE (ExpWeight(evaluations[1].score - evaluations[i].score) * 1000)
             \div cumulativeTo(evaluations, Len(evaluations))

\* the sum of the probabilities of entries 1..i; NaN if one of them is NaN
RECURSIVE probabilitySum(_, _)
probabilitySum(evaluations, i) ==
    IF i = 0 THEN 0
    ELSE IF probabilityOf(evaluations, i) = NaN
              \/ probabilitySum(evaluations, i - 1) = NaN
         THEN NaN
         ELSE probabilitySum(evaluations, i - 1) + probabilityOf(evaluations, i)

\* The softmax and the weighted random selection of makeAIDecision, on the
\* sorted evaluations, for the draw r; the result is an index into evaluations.
\* With an overflowed exponential every comparison "random <= cumulative" is
\* against NaN and fails, and the loop falls through to evaluations[0].
weightedSelection(evaluations, r) ==
    LET n == Len(evaluations)
        sumExp == cumulativeTo(evaluations, n)
        hits == {i \in 1..n : r[1] * sumExp <= r[2] * cumulativeTo(evaluations, i)}
    IN  IF evaluations[1].score >= ExpOverflowScore \/ hits = {} THEN 1
        ELSE CHOOSE i \in hits : \A j \in hits : i <= j

\* evaluations = possibleDirections.map(dir => ({direction, score}))
RECURSIVE evaluateDirections(_, _, _)
evaluateDirections(tg, cycle, dirs) ==
    IF dirs = <<>> THEN <<>>
    ELSE <<[direction |-> Head(dirs),
            score |-> neuralEvaluateDirection(tg, cycle, Head(dirs))]>>
         \o evaluateDirections(tg, cycle, Tail(dirs))

\* Variant of makeAIDecision whose return after the loop is the first of all
\* directions instead of evaluations[0].direction.
makeAIDecisionFallsToFirst(tg, cycle, draws) ==
    LET possibleDirections == getSafeDirections(tg, cycle)
    IN  IF Len(possibleDirections) = 0 THEN {cycle.direction}
        ELSE UNION {{IF evaluations[1].score >= ExpOverflowScore
                     THEN allDirections[1]
                     ELSE evaluations[weightedSelection(evaluations, r)].direction :
                         r \in draws} :
                       evaluations \in
                           {sortEvaluations(evaluateDirections(tg, cycle, possibleDirections))}}

\* makeAIDecision(cycle) on the trail grid tg: the set of directions it returns
\* as Math.random() ranges over draws (one direction for a single draw).
makeAIDecision(tg, cycle, draws) ==
    LET possibleDirections == getSafeDirections(tg, cycle)
    IN  IF Len(possibleDirections) = 0 THEN {cycle.direction}
        ELSE UNION {{evaluations[weightedSelection(evaluations, r)].direction : r \in draws} :
                       evaluations \in
                           {sortEvaluations(evaluateDirections(tg, cycle, possibleDirections))}}

----------------------------------------------------------------------------
(* reset() and the tick of update() *)

createCycles(rs) ==
    [i \in 1..NumCycles |->
        [id |-> i,
         position |-> getStartPositions[i],
         direction |-> getRandomDirection(rs[i]),
         alive |-> TRUE,
         pathfindingMemory |-> <<>>,
         lastDirectionChange |-> 0,
         movesSinceDirectionChange |-> 0]]

\* Variant of placeInitial that marks no spawn cell.
placeInitialNoMarks(tg, cs, i) == tg

\* "Place initial positions on trail grid": the forEach at the end of reset()
RECURSIVE placeInitial(_, _, _)
placeInitial(tg, cs, i) ==
    IF i > Len(cs) THEN tg
    ELSE placeInitial(
             IF isValidPosition(cs[i].position)
             THEN [tg EXCEPT ![cs[i].position.y][cs[i].position.x] = cs[i].id]
             ELSE tg,
             cs, i + 1)

\* Variant of reset() that places the new cycles on the trail grid of the
\* round that ended instead of on a cleared grid.
resetKeepingTrail(t, rs) ==
    /\ state' = PLAYING
    /\ score' = 0
    /\ speed' = InitialSpeed
    /\ lastMoveTime' = 0
    /\ explosions' = <<>>
    /\ gameStartTime' = t
    /\ frameCount' = 0
    /\ cycles' = createCycles(rs)
    /\ trailGrid' = placeInitial(trailGrid, createCycles(rs), 1)

\* reset() at clock value t, with the four draws rs of getRandomDirection
reset(t, rs) ==
    /\ state' = PLAYING
    /\ score' = 0
    /\ speed' = InitialSpeed
    /\ lastMoveTime' = 0
    /\ explosions' = <<>>
    /\ gameStartTime' = t
    /\ frameCount' = 0
    /\ cycles' = createCycles(rs)
    /\ trailGrid' = placeInitial(EmptyTrail, createCycles(rs), 1)

\* Variant of the alive filter that lets every cycle through.
everyCycleId(cs) == [i \in 1..Len(cs) |-> i]

\* this.cycles.filter((cycle) => cycle.alive), as the ids in list order
aliveIds(cs) == SelectSeq([i \in 1..Len(cs) |-> i], LAMBDA i : cs[i].alive)

createExplosion(c) == [x |-> c.position.x, y |-> c.position.y, id |-> c.id]

\* Variant of the forEach body that marks the cell left with 1, whichever
\* cycle leaves it.
moveCycleMarkingOne(ctx, i, newDirection, fc) ==
    LET cycle == ctx.cycles[i]
        turned == [cycle EXCEPT
                     !.lastDirectionChange =
                         IF newDirection # cycle.direction THEN fc ELSE @,
                     !.movesSinceDirectionChange =
                         IF newDirection # cycle.direction THEN 0 ELSE @ + 1,
                     !.direction = newDirection]
        nextPos == getNextPositionInDirection(cycle.position, newDirection)
        pushed == Append(cycle.pathfindingMemory, cycle.position)
    IN  IF checkCollision(ctx.trailGrid, nextPos)
        THEN [ctx EXCEPT !.cycles[i] = [turned EXCEPT !.alive = FALSE],
                         !.explosions = Append(@, createExplosion(cycle))]
        ELSE [ctx EXCEPT
                 !.cycles[i] = [turned EXCEPT
                     !.pathfindingMemory =
                         IF Len(pushed) > MemoryLimit THEN Tail(pushed) ELSE pushed,
                     !.position = nextPos],
                 !.trailGrid =
                     IF isValidPosition(cycle.position)
                     THEN [@ EXCEPT ![cycle.position.y][cycle.position.x] = 1]
                     ELSE @]

\* Variant of the forEach body whose memory, once over the limit, drops the
\* position just pushed instead of the oldest one.
moveCycleEvictingNewest(ctx, i, newDirection, fc) ==
    LET cycle == ctx.cycles[i]
        turned == [cycle EXCEPT
                     !.lastDirectionChange =
                         IF newDirection # cycle.direction THEN fc ELSE @,
                     !.movesSinceDirectionChange =
                         IF newDirection # cycle.direction THEN 0 ELSE @ + 1,
                     !.direction = newDirection]
        nextPos == getNextPositionInDirection(cycle.position, newDirection)
        pushed == Append(cycle.pathfindingMemory, cycle.position)
    IN  IF checkCollision(ctx.trailGrid, nextPos)
        THEN [ctx EXCEPT !.cycles[i] = [turned EXCEPT !.alive = FALSE],
                         !.explosions = Append(@, createExplosion(cycle))]
        ELSE [ctx EXCEPT
                 !.cycles[i] = [turned EXCEPT
                     !.pathfindingMemory =
                         IF Len(pushed) > MemoryLimit
                         THEN SubSeq(pushed, 1, Len(pushed) - 1)
                         ELSE pushed,
                     !.position = nextPos],
                 !.trailGrid =
                     IF isValidPosition(cycle.position)
                     THEN [@ EXCEPT ![cycle.position.y][cycle.position.x] = cycle.id]
                     ELSE @]

\* Variant of the forEach body in which a cycle also crashes when the cell
\* after its next cell is blocked.
moveCycleCrashingEarly(ctx, i, newDirection, fc) ==
    LET cycle == ctx.cycles[i]
        turned == [cycle EXCEPT
                     !.lastDirectionChange =
                         IF newDirection # cycle.direction THEN fc ELSE @,
                     !.movesSinceDirectionChange =
                         IF newDirection # cycle.direction THEN 0 ELSE @ + 1,
                     !.direction = newDirection]
        nextPos == getNextPositionInDirection(cycle.position, newDirection)
        pushed == Append(cycle.pathfindingMemory, cycle.position)
    IN  IF \/ checkCollision(ctx.trailGrid, nextPos)
           \/ checkCollision(ctx.trailGrid,
                             getNextPositionInDirection(nextPos, newDirection))
        THEN [ctx EXCEPT !.cycles[i] = [turned EXCEPT !.alive = FALSE],
                         !.explosions = Append(@, createExplosion(cycle))]
        ELSE [ctx EXCEPT
                 !.cycles[i] = [turned EXCEPT
                     !.pathfindingMemory =
                         IF Len(pushed) > MemoryLimit THEN Tail(pushed) ELSE pushed,
                     !.position = nextPos],
                 !.trailGrid =
                     IF isValidPosition(cycle.position)
                     THEN [@ EXCEPT ![cycle.position.y][cycle.position.x] = cycle.id]
                     ELSE @]

\* Variant of the forEach body in which a cycle that would collide stays
\* where it is, alive.
moveCycleStalled(ctx, i, newDirection, fc) ==
    LET cycle == ctx.cycles[i]
        nextPos == getNextPositionInDirection(cycle.position, newDirection)
        pushed == Append(cycle.pathfindingMemory, cycle.position)
    IN  IF checkCollision(ctx.trailGrid, nextPos)
        THEN ctx
        ELSE [ctx EXCEPT
                 !.cycles[i] = [cycle EXCEPT
                     !.lastDirectionChange =
                         IF newDirection # cycle.direction THEN fc ELSE @,
                     !.movesSinceDirectionChange =
                         IF newDirection # cycle.direction THEN 0 ELSE @ + 1,
                     !.direction = newDirection,
                     !.pathfindingMemory =
                         IF Len(pushed) > MemoryLimit THEN Tail(pushed) ELSE pushed,
                     !.position = nextPos],
                 !.trailGrid =
                     IF isValidPosition(cycle.position)
                     THEN [@ EXCEPT ![cycle.position.y][cycle.position.x] = cycle.id]
                     ELSE @]

\* Variant of the forEach body in which a cycle that collides still records the
\* cell it stands on in the trail grid.
moveCycleMarkingCrash(ctx, i, newDirection, fc) ==
    LET cycle == ctx.cycles[i]
        turned == [cycle EXCEPT
                     !.lastDirectionChange =
                         IF newDirection # cycle.direction THEN fc ELSE @,
                     !.movesSinceDirectionChange =
                         IF newDirection # cycle.direction THEN 0 ELSE @ + 1,
                     !.direction = newDirection]
        nextPos == getNextPositionInDirection(cycle.position, newDirection)
        pushed == Append(cycle.pathfindingMemory, cycle.position)
        marked == [ctx.trailGrid EXCEPT ![cycle.position.y][cycle.position.x] = cycle.id]
    IN  IF checkCollision(ctx.trailGrid, nextPos)
        THEN [ctx EXCEPT !.cycles[i] = [turned EXCEPT !.alive = FALSE],
                         !.explosions = Append(@, createExplosion(cycle)),
                         !.trailGrid = marked]
        ELSE [ctx EXCEPT
                 !.cycles[i] = [turned EXCEPT
                     !.pathfindingMemory =
                         IF Len(pushed) > MemoryLimit THEN Tail(pushed) ELSE pushed,
                     !.position = nextPos],
                 !.trailGrid = marked]

\* Variant of the forEach body in which the trail of a cycle that collides is
\* removed from the grid.
moveCycleErasingTrail(ctx, i, newDirection, fc) ==
    LET cycle == ctx.cycles[i]
        turned == [cycle EXCEPT
                     !.lastDirectionChange =
                         IF newDirection # cycle.direction THEN fc ELSE @,
                     !.movesSinceDirectionChange =
                         IF newDirection # cycle.direction THEN 0 ELSE @ + 1,
                     !.direction = newDirection]
        nextPos == getNextPositionInDirection(cycle.position, newDirection)
        pushed == Append(cycle.pathfindingMemory, cycle.position)
    IN  IF checkCollision(ctx.trailGrid, nextPos)
        THEN [ctx EXCEPT !.cycles[i] = [turned EXCEPT !.alive = FALSE],
                         !.explosions = Append(@, createExplosion(cycle)),
                         !.trailGrid =
                             [y \in DOMAIN @ |->
                                 [x \in DOMAIN @[y] |->
                                     IF @[y][x] = cycle.id THEN 0 ELSE @[y][x]]]]
        ELSE [ctx EXCEPT
                 !.cycles[i] = [turned EXCEPT
                     !.pathfindingMemory =
                         IF Len(pushed) > MemoryLimit THEN Tail(pushed) ELSE pushed,
                     !.position = nextPos],
                 !.trailGrid =
                     IF isValidPosition(cycle.position)
                     THEN [@ EXCEPT ![cycle.position.y][cycle.position.x] = cycle.id]
                     ELSE @]

\* Variant of the forEach body that tracks the direction change only for a
\* cycle that moves.
moveCycleTrackingMoves(ctx, i, newDirection, fc) ==
    LET cycle == ctx.cycles[i]
        turned == [cycle EXCEPT
                     !.lastDirectionChange =
                         IF newDirection # cycle.direction THEN fc ELSE @,
                     !.movesSinceDirectionChange =
                         IF newDirection # cycle.direction THEN 0 ELSE @ + 1,
                     !.direction = newDirection]
        nextPos == getNextPositionInDirection(cycle.position, newDirection)
        pushed == Append(cycle.pathfindingMemory, cycle.position)
    IN  IF checkCollision(ctx.trailGrid, nextPos)
        THEN [ctx EXCEPT !.cycles[i] = [cycle EXCEPT !.direction = newDirection,
                                                     !.alive = FALSE],
                         !.explosions = Append(@, createExplosion(cycle))]
        ELSE [ctx EXCEPT
                 !.cycles[i] = [turned EXCEPT
                     !.pathfindingMemory =
                         IF Len(pushed) > MemoryLimit THEN Tail(pushed) ELSE pushed,
                     !.position = nextPos],
                 !.trailGrid =
                     IF isValidPosition(cycle.position)
                     THEN [@ EXCEPT ![cycle.position.y][cycle.position.x] = cycle.id]
                     ELSE @]

\* Variant of the forEach body in which a cycle that moves onto the cell of
\* another cycle's head takes that cycle out.
moveCycleRamming(ctx, i, newDirection, fc) ==
    LET cycle == ctx.cycles[i]
        turned == [cycle EXCEPT
                     !.lastDirectionChange =
                         IF newDirection # cycle.direction THEN fc ELSE @,
                     !.movesSinceDirectionChange =
                         IF newDirection # cycle.direction THEN 0 ELSE @ + 1,
                     !.direction = newDirection]
        nextPos == getNextPositionInDirection(cycle.position, newDirection)
        pushed == Append(cycle.pathfindingMemory, cycle.position)
    IN  IF checkCollision(ctx.trailGrid, nextPos)
        THEN [ctx EXCEPT !.cycles[i] = [turned EXCEPT !.alive = FALSE],
                         !.explosions = Append(@, createExplosion(cycle))]
        ELSE [ctx EXCEPT
                 !.cycles = [j \in 1..Len(ctx.cycles) |->
                     IF j = i
                     THEN [turned EXCEPT
                             !.pathfindingMemory =
                                 IF Len(pushed) > MemoryLimit THEN Tail(pushed) ELSE pushed,
                             !.position = nextPos]
                     ELSE IF ctx.cycles[j].position = nextPos
                          THEN [ctx.cycles[j] EXCEPT !.alive = FALSE]
                          ELSE ctx.cycles[j]],
                 !.trailGrid =
                     IF isValidPosition(cycle.position)
                     THEN [@ EXCEPT ![cycle.position.y][cycle.position.x] = cycle.id]
                     ELSE @]

\* The body of "aliveCycles.forEach((cycle) => ...)" for cycle i, given the
\* direction its makeAIDecision returned; ctx is the game as the earlier
\* cycles of this tick left it.
moveCycle(ctx, i, newDirection, fc) ==
    LET cycle == ctx.cycles[i]
        turned == [cycle EXCEPT
                     !.lastDirectionChange =
                         IF newDirection # cycle.direction THEN fc ELSE @,
                     !.movesSinceDirectionChange =
                         IF newDirection # cycle.direction THEN 0 ELSE @ + 1,
                     !.direction = newDirection]
        nextPos == getNextPositionInDirection(cycle.position, newDirection)
        pushed == Append(cycle.pathfindingMemory, cycle.position)
    IN  IF checkCollision(ctx.trailGrid, nextPos)
        THEN [ctx EXCEPT !.cycles[i] = [turned EXCEPT !.alive = FALSE],
                         !.explosions = Append(@, createExplosion(cycle))]
        ELSE [ctx EXCEPT
                 !.cycles[i] = [turned EXCEPT
                     !.pathfindingMemory =
                         IF Len(pushed) > MemoryLimit THEN Tail(pushed) ELSE pushed,
                     !.position = nextPos],
                 !.trailGrid =
                     IF isValidPosition(cycle.position)
                     THEN [@ EXCEPT ![cycle.position.y][cycle.position.x] = cycle.id]
                     ELSE @]

\* Variant of the forEach that takes the cycles in descending list order.
RECURSIVE moveCyclesDescending(_, _, _)
moveCyclesDescending(ctx, ids, fc) ==
    IF ids = <<>> THEN {ctx}
    ELSE UNION {moveCyclesDescending(moved, SubSeq(ids, 1, Len(ids) - 1), fc) :
                    moved \in {moveCycle(ctx, ids[Len(ids)], d, fc) :
                        d \in makeAIDecision(ctx.trailGrid, ctx.cycles[ids[Len(ids)]],
                                             RandomDraws)}}

\* The forEach over aliveCycles, in list order; every cycle draws its own
\* random number.  The set of games the tick can end in.
RECURSIVE moveCycles(_, _, _)
moveCycles(ctx, ids, fc) ==
    IF ids = <<>> THEN {ctx}
    ELSE UNION {moveCycles(moved, Tail(ids), fc) :
                    moved \in {moveCycle(ctx, Head(ids), d, fc) :
                        d \in makeAIDecision(ctx.trailGrid, ctx.cycles[Head(ids)],
                                             RandomDraws)}}

trailLength(tg) ==
    Cardinality({c \in (0..(GridHeight - 1)) \X (0..(GridWidth - 1)) : tg[c[1]][c[2]] > 0})

\* Variant of the score without the survival-time term.
tickScoreNoTime(currentTime, activeCycles, tg) ==
    activeCycles * 5 + trailLength(tg)

tickScore(currentTime, activeCycles, tg) ==
    ((currentTime - gameStartTime) \div 1000) * 10 + activeCycles * 5 + trailLength(tg)

\* Variant of the speed ramp without the floor.
tickSpeedNoFloor(currentTime) ==
    InitialSpeed - ((currentTime - gameStartTime) \div 10000) * SpeedStep

\* Math.max(80, 200 - Math.floor(gameTimeSeconds / 10) * 20)
tickSpeed(currentTime) ==
    Max(MinSpeed, InitialSpeed - ((currentTime - gameStartTime) \div 10000) * SpeedStep)

----------------------------------------------------------------------------
(* update(currentTime), one action per path through it.  The frame loop     *)
(* calls it with the clock advanced by the frame interval.                  *)

\* where the clock of the model stops
TimeCap == IF frameInterval = FrameSparse THEN MaxTimeSparse ELSE MaxTime

frame(currentTime) ==
    /\ currentTime = now + frameInterval
    /\ currentTime <= TimeCap
    /\ now' = currentTime
    /\ frameInterval' = frameInterval

\* Variant of the delay test that already fires when the delay is just reached.
restartDueInclusive(currentTime) == currentTime - restartTime >= restartDelay

\* "currentTime - this.restartTime > this.restartDelay"
restartDue(currentTime) == currentTime - restartTime > restartDelay

\* Variant of the clock gate that opens after half the tick interval.
timeToMoveHalfway(currentTime) == ~(currentTime - lastMoveTime < speed \div 2)

\* the negation of "currentTime - this.lastMoveTime < this.speed"
timeToMove(currentTime) == ~(currentTime - lastMoveTime < speed)

\* Variant of the waiting path that recomputes the score while waiting.
UpdateWaitingScoring ==
    \E currentTime \in {now + frameInterval} :
        /\ frame(currentTime)
        /\ state = RESTARTING
        /\ ~(currentTime - restartTime > restartDelay)
        /\ frameCount' = frameCount + 1
        /\ score' = tickScore(currentTime, Len(aliveIds(cycles)), trailGrid)
        /\ UNCHANGED <<state, speed, lastMoveTime, restartTime, gameStartTime,
                       cycles, trailGrid, explosions>>

\* RESTARTING, the delay not over: return
UpdateWaiting ==
    \E currentTime \in {now + frameInterval} :
        /\ frame(currentTime)
        /\ state = RESTARTING
        /\ ~restartDue(currentTime)
        /\ frameCount' = frameCount + 1
        /\ UNCHANGED <<state, score, speed, lastMoveTime, restartTime, gameStartTime,
                       cycles, trailGrid, explosions>>

\* RESTARTING, the delay over: reset()
UpdateRestart ==
    \E currentTime \in {now + frameInterval}, rs \in [1..NumCycles -> RandomDraws] :
        /\ frame(currentTime)
        /\ state = RESTARTING
        /\ restartDue(currentTime)
        /\ reset(currentTime, rs)
        /\ UNCHANGED restartTime

\* PLAYING, not yet time to move: return
UpdateIdle ==
    \E currentTime \in {now + frameInterval} :
        /\ frame(currentTime)
        /\ state = PLAYING
        /\ ~timeToMove(currentTime)
        /\ frameCount' = frameCount + 1
        /\ UNCHANGED <<state, score, speed, lastMoveTime, restartTime, gameStartTime,
                       cycles, trailGrid, explosions>>

\* Variant of initiateRestart that emits no explosion.
initiateRestartSilent(currentTime) ==
    /\ state' = RESTARTING
    /\ restartTime' = currentTime
    /\ explosions' = explosions

\* Variant of initiateRestart that only emits the explosions and leaves the
\* state PLAYING.
initiateRestartKeepsPlaying(currentTime) ==
    /\ state' = state
    /\ restartTime' = currentTime
    /\ explosions' = explosions \o
           [k \in 1..Len(aliveIds(cycles)) |-> createExplosion(cycles[aliveIds(cycles)[k]])]

\* Variant of initiateRestart that emits an explosion for every cycle, alive
\* or not.
initiateRestartExplodingAll(currentTime) ==
    /\ state' = RESTARTING
    /\ restartTime' = currentTime
    /\ explosions' = explosions \o
           [k \in 1..Len(cycles) |-> createExplosion(cycles[k])]

\* initiateRestart(currentTime)
initiateRestart(currentTime) ==
    /\ state' = RESTARTING
    /\ restartTime' = currentTime
    /\ explosions' = explosions \o
           [k \in 1..Len(aliveIds(cycles)) |-> createExplosion(cycles[aliveIds(cycles)[k]])]

\* Variant of the restart path that is taken with two cycles alive as well.
UpdateInitiateRestartAtTwo ==
    \E currentTime \in {now + frameInterval} :
        /\ frame(currentTime)
        /\ state = PLAYING
        /\ timeToMove(currentTime)
        /\ Len(aliveIds(cycles)) <= 2
        /\ frameCount' = frameCount + 1
        /\ initiateRestart(currentTime)
        /\ UNCHANGED <<score, speed, lastMoveTime, gameStartTime, cycles, trailGrid>>

\* Variant of the restart path that also marks the survivor dead.
UpdateInitiateRestartKilling ==
    \E currentTime \in {now + frameInterval} :
        /\ frame(currentTime)
        /\ state = PLAYING
        /\ timeToMove(currentTime)
        /\ Len(aliveIds(cycles)) <= 1
        /\ frameCount' = frameCount + 1
        /\ initiateRestart(currentTime)
        /\ cycles' = [i \in 1..Len(cycles) |-> [cycles[i] EXCEPT !.alive = FALSE]]
        /\ UNCHANGED <<score, speed, lastMoveTime, gameStartTime, trailGrid>>

\* PLAYING, time to move, at most one cycle alive: initiateRestart
UpdateInitiateRestart ==
    \E currentTime \in {now + frameInterval} :
        /\ frame(currentTime)
        /\ state = PLAYING
        /\ timeToMove(currentTime)
        /\ Len(aliveIds(cycles)) <= 1
        /\ frameCount' = frameCount + 1
        /\ initiateRestart(currentTime)
        /\ UNCHANGED <<score, speed, lastMoveTime, gameStartTime, cycles, trailGrid>>

\* PLAYING, time to move, two or more cycles alive: the tick
UpdateTick ==
    \E currentTime \in {now + frameInterval} :
        /\ frame(currentTime)
        /\ state = PLAYING
        /\ timeToMove(currentTime)
        /\ Len(aliveIds(cycles)) > 1
        /\ frameCount' = frameCount + 1
        /\ \E out \in moveCycles([cycles |-> cycles, trailGrid |-> trailGrid,
                                  explosions |-> explosions],
                                 aliveIds(cycles), frameCount + 1) :
              /\ cycles' = out.cycles
              /\ trailGrid' = out.trailGrid
              /\ explosions' = out.explosions
              /\ score' = tickScore(currentTime, Len(aliveIds(cycles)), out.trailGrid)
        /\ speed' = tickSpeed(currentTime)
        /\ lastMoveTime' = currentTime
        /\ UNCHANGED <<state, restartTime, gameStartTime>>

update == UpdateWaiting \/ UpdateRestart \/ UpdateIdle \/ UpdateInitiateRestart \/ UpdateTick

\* forceRestart(): reset() outside the frame loop.  The model calls it on a
\* game that has run (frameCount > 0), once the clock has reached its cap.
forceRestart ==
    \E rs \in [1..NumCycles -> RandomDraws] :
        /\ now + frameInterval > TimeCap
        /\ frameCount > 0
        /\ reset(now, rs)
        /\ UNCHANGED <<restartTime, now, frameInterval>>

\* new TronGame(grid, config): the constructor ends in reset()
Init ==
    /\ now = 0
    /\ frameInterval \in FrameIntervals
    /\ restartTime = 0
    /\ \E rs \in [1..NumCycles -> RandomDraws] :
          /\ state = PLAYING
          /\ score = 0
          /\ speed = InitialSpeed
          /\ lastMoveTime = 0
          /\ explosions = <<>>
          /\ gameStartTime = now
          /\ frameCount = 0
          /\ cycles = createCycles(rs)
          /\ trailGrid = placeInitial(EmptyTrail, createCycles(rs), 1)

Next == update \/ forceRestart

Spec == Init /\ [][Next]_vars

----------------------------------------------------------------------------
(* Steps, as the claims name them *)

AliveCount(cs) == Len(aliveIds(cs))

\* update() was called: the clock advanced by one frame
FrameStep == now' # now

\* a permitted tick: update() moved the cycles (only then is lastMoveTime the
\* frame's timestamp)
TickStep == FrameStep /\ state = PLAYING /\ lastMoveTime' = now'

\* reset() ran: at the end of the restart delay, or by forceRestart
ResetStep == frameCount' = 0 /\ vars' # vars

Cells == (0..(GridHeight - 1)) \X (0..(GridWidth - 1))

\* all four neighbouring cells of cycle c are blocked
BoxedIn(tg, c) ==
    \A dir \in Direction : checkCollision(tg, getNextPositionInDirection(c.position, dir))

----------------------------------------------------------------------------
(* C1 *)

\* C1: within a round, a trail-grid cell that is non-zero keeps its value:
\* no step other than a reset changes a non-zero cell.
C1_WriteOnceTrail ==
    [][~ResetStep =>
          \A c \in Cells :
              trailGrid[c[1]][c[2]] # 0 => trailGrid'[c[1]][c[2]] = trailGrid[c[1]][c[2]]]_vars

(* C2 *)

\* C2: within a round no two cycles, alive or dead, are positioned on the
\* same cell.
C2_OneCyclePerCell ==
    \A i, j \in 1..NumCycles :
        i # j => cycles[i].position # cycles[j].position

(* C3 *)

\* C3: in every reachable state every alive cycle's position satisfies
\* 0 <= x < 52 and 0 <= y < 7.
C3_AliveInBounds ==
    \A i \in 1..NumCycles :
        cycles[i].alive =>
            /\ 0 <= cycles[i].position.x /\ cycles[i].position.x < 52
            /\ 0 <= cycles[i].position.y /\ cycles[i].position.y < 7

\* an alive cycle has moved onto a cell of the grid's border
C3_Witness ==
    \E i \in 1..NumCycles :
        /\ cycles[i].alive
        /\ Len(cycles[i].pathfindingMemory) > 0
        /\ \/ cycles[i].position.x = 0 \/ cycles[i].position.x = 51
           \/ cycles[i].position.y = 0 \/ cycles[i].position.y = 6

(* C4 *)

\* C4: in every tick, the heading of a cycle that was alive before the tick is
\* not the opposite of the heading it had before the tick (forced collisions
\* included: there the heading is kept).
C4_NoUTurn ==
    [][TickStep =>
          \A i \in 1..NumCycles :
              cycles[i].alive =>
                  cycles'[i].direction # getOppositeDirection(cycles[i].direction)]_vars

\* a tick has just run in which one alive cycle turned and another kept its heading
C4_Witness ==
    /\ state = PLAYING
    /\ lastMoveTime = now
    /\ \E i, j \in 1..NumCycles :
          /\ cycles[i].alive /\ cycles[i].lastDirectionChange = frameCount
          /\ cycles[j].alive /\ cycles[j].movesSinceDirectionChange > 0

(* C5 *)

\* C5: a permitted tick that starts with at least 2 alive cycles and leaves at
\* most 1 alive leaves the state RESTARTING when that update() returns.
C5_RestartingImmediately ==
    [][(TickStep /\ AliveCount(cycles) >= 2 /\ AliveCount(cycles') <= 1) =>
          state' = RESTARTING]_vars

(* C6 *)

\* every cycle of cs stands on the spawn coordinate of its list position
AtSpawn(cs) == \A i \in 1..NumCycles : cs[i].position = getStartPositions[i]

\* the update() that ends the restart delay
RestartCompletes == state = RESTARTING /\ state' = PLAYING

\* C6 as stated: when the state returns from RESTARTING to PLAYING every cell
\* of the trail grid is 0 and the four cycles are at (8,1), (43,1), (8,5), (43,5).
C6_TrailFullyZeroed ==
    [][RestartCompletes =>
          /\ \A c \in Cells : trailGrid'[c[1]][c[2]] = 0
          /\ cycles'[1].position = Point(8, 1) /\ cycles'[2].position = Point(43, 1)
          /\ cycles'[3].position = Point(8, 5) /\ cycles'[4].position = Point(43, 5)]_vars

\* C6, amended: when the state returns from RESTARTING to PLAYING the four
\* cycles are at (8,1), (43,1), (8,5), (43,5), each spawn cell of the trail
\* grid holds the id of the cycle standing on it, and every other cell is 0.
C6_TrailZeroExceptSpawn ==
    [][RestartCompletes =>
          /\ cycles'[1].position = Point(8, 1) /\ cycles'[2].position = Point(43, 1)
          /\ cycles'[3].position = Point(8, 5) /\ cycles'[4].position = Point(43, 5)
          /\ \A i \in 1..NumCycles :
                 trailGrid'[cycles'[i].position.y][cycles'[i].position.x] = i
          /\ \A c \in Cells :
                 (\A i \in 1..NumCycles : cycles'[i].position # Point(c[2], c[1]))
                     => trailGrid'[c[1]][c[2]] = 0]_vars

\* the state right after the reset that ended a restart delay
C6_Witness ==
    /\ state = PLAYING /\ frameCount = 0
    /\ restartTime > 0 /\ now - restartTime > restartDelay
    /\ gameStartTime = now /\ now + frameInterval <= TimeCap

(* C7 *)

\* the game as a reset leaves it; every non-zero trail cell is the spawn mark
\* of the cycle that stands on it
FreshRound(st, sc, sp, cs, tg) ==
    /\ st = PLAYING /\ sc = 0 /\ sp = 200
    /\ Len(cs) = 4
    /\ \A i \in 1..Len(cs) :
           /\ cs[i].id = i
           /\ cs[i].alive
           /\ cs[i].pathfindingMemory = <<>>
           /\ cs[i].lastDirectionChange = 0
           /\ cs[i].movesSinceDirectionChange = 0
    /\ \A c \in Cells :
           tg[c[1]][c[2]] # 0 =>
               \E i \in 1..Len(cs) :
                   cs[i].position = Point(c[2], c[1]) /\ tg[c[1]][c[2]] = cs[i].id

\* C7: the constructed game, and the game after every reset (the end of the
\* restart delay, forceRestart), whatever the state before: PLAYING, score 0,
\* speed 200, four cycles with ids 1..4 in list order, all alive with empty
\* memory and zero heading-change counters, and no trail mark of the round before.
C7_ResetDiscardsRound ==
    /\ FreshRound(state, score, speed, cycles, trailGrid)
    /\ [][ResetStep => FreshRound(state', score', speed', cycles', trailGrid')]_vars

\* the state right after forceRestart() hit a round that was still being played
C7_Witness ==
    frameCount = 0 /\ now > 0 /\ restartTime = 0

(* C8 *)

\* C8: RESTARTING is entered with restartTime = t0 the time of that update;
\* an update(t) in RESTARTING with t - t0 <= 1000 leaves the state RESTARTING,
\* and one with t - t0 > 1000 (the first such) resets: the state is PLAYING.
C8_RestartDelay ==
    [][/\ (state = PLAYING /\ state' = RESTARTING) => restartTime' = now'
       /\ (state = RESTARTING /\ FrameStep) =>
              IF now' - restartTime <= 1000
              THEN state' = RESTARTING /\ restartTime' = restartTime
              ELSE state' = PLAYING /\ frameCount' = 0]_vars

\* an update() exactly 1000 ms after RESTARTING was entered has left the state RESTARTING
C8_Witness == state = RESTARTING /\ now - restartTime = 1000

(* C9 *)

\* C9: an update() in RESTARTING that does not end the delay changes no
\* cycle, no trail cell, neither score nor speed.
C9_WaitingChangesNothing ==
    [][(state = RESTARTING /\ FrameStep /\ state' = RESTARTING) =>
          /\ cycles' = cycles
          /\ trailGrid' = trailGrid
          /\ score' = score
          /\ speed' = speed]_vars

\* update() has been called in RESTARTING without ending the delay
C9_Witness == state = RESTARTING /\ now > restartTime /\ score > 0

(* C10 *)

\* update() gets past the speed gate of a game that is PLAYING
PermittedStep == FrameStep /\ state = PLAYING /\ timeToMove(now')

----------------------------------------------------------------------------
(* The stages of a tick *)

\* The game as it is just before cycle i is processed in the forEach over ids,
\* when the cycles processed before it chose the headings they have in post.
RECURSIVE StageBefore(_, _, _, _, _)
StageBefore(ctx, ids, i, post, fc) ==
    IF ids = <<>> \/ Head(ids) = i THEN ctx
    ELSE StageBefore(moveCycle(ctx, Head(ids), post[Head(ids)].direction, fc),
                     Tail(ids), i, post, fc)

\* the game at the start of the step, as the forEach receives it
TickStart == [cycles |-> cycles, trailGrid |-> trailGrid, explosions |-> explosions]

\* the game just before cycle i is processed in the tick this step performs
StageOf(i) == StageBefore(TickStart, aliveIds(cycles), i, cycles', frameCount')

\* the explosion events of cycle i in the event list es
EventsOf(es, i) == SelectSeq(es, LAMBDA e : e.id = i)

(* C11 *)

\* C11: a cycle that is alive at the start of a tick and finds its next cell
\* blocked when it is processed (always so when it has no safe direction, and
\* then its heading is unchanged) is dead after the tick, one explosion event
\* has been added for it at its position, its position and memory are unchanged
\* and no trail cell has been written with its id.
C11_DeathStep ==
    [][TickStep =>
          \A i \in 1..NumCycles :
              cycles[i].alive =>
                  LET st == StageOf(i)
                      nextPos == getNextPositionInDirection(cycles[i].position,
                                                            cycles'[i].direction)
                  IN  /\ getSafeDirections(st.trailGrid, cycles[i]) = <<>> =>
                             /\ cycles'[i].direction = cycles[i].direction
                             /\ checkCollision(st.trailGrid, nextPos)
                      /\ checkCollision(st.trailGrid, nextPos) =>
                             /\ ~cycles'[i].alive
                             /\ cycles'[i].position = cycles[i].position
                             /\ cycles'[i].pathfindingMemory = cycles[i].pathfindingMemory
                             /\ EventsOf(explosions', i) =
                                    Append(EventsOf(explosions, i),
                                           [x |-> cycles[i].position.x,
                                            y |-> cycles[i].position.y, id |-> i])
                             /\ \A c \in Cells :
                                    trailGrid'[c[1]][c[2]] = i =>
                                        st.trailGrid[c[1]][c[2]] = i]_vars

\* a cycle that had moved has died in a tick, with its explosion event emitted,
\* while the round goes on
C11_Witness ==
    /\ state = PLAYING
    /\ \E i \in 1..NumCycles :
          /\ ~cycles[i].alive
          /\ Len(cycles[i].pathfindingMemory) > 0
          /\ Len(EventsOf(explosions, i)) = 1

(* C12 *)

\* the unit step of a heading: y grows downwards
UnitDelta(dir) ==
    CASE dir = "UP" -> [x |-> 0, y |-> -1]
      [] dir = "DOWN" -> [x |-> 0, y |-> 1]
      [] dir = "LEFT" -> [x |-> -1, y |-> 0]
      [] dir = "RIGHT" -> [x |-> 1, y |-> 0]

\* C12: in a tick (permitted, two or more cycles alive) every cycle alive at
\* its start applies exactly one decision of makeAIDecision, taken on the grid
\* as it is when the cycle is processed; if its next cell is not blocked then,
\* the cell it leaves holds its id once it has been processed (and at the end
\* of the tick, unless a cycle processed after it left the same cell), the cell
\* it leaves is the newest entry of its memory, appended to the old memory
\* (the oldest entry dropped beyond 20), and its new position is the old one
\* plus the unit step of the chosen heading.
C12_MoveStep ==
    [][TickStep =>
          /\ AliveCount(cycles) >= 2
          /\ \A i \in 1..NumCycles :
                cycles[i].alive =>
                    LET st == StageOf(i)
                        old == cycles[i].position
                        chosen == cycles'[i].direction
                        nextPos == Point(old.x + UnitDelta(chosen).x,
                                         old.y + UnitDelta(chosen).y)
                        done == moveCycle(st, i, chosen, frameCount')
                        pushed == Append(cycles[i].pathfindingMemory, old)
                    IN  /\ chosen \in makeAIDecision(st.trailGrid, cycles[i], RandomDraws)
                        /\ IF chosen = cycles[i].direction
                           THEN /\ cycles'[i].movesSinceDirectionChange =
                                       cycles[i].movesSinceDirectionChange + 1
                                /\ cycles'[i].lastDirectionChange =
                                       cycles[i].lastDirectionChange
                           ELSE /\ cycles'[i].movesSinceDirectionChange = 0
                                /\ cycles'[i].lastDirectionChange = frameCount'
                        /\ ~checkCollision(st.trailGrid, nextPos) =>
                               /\ cycles'[i].alive
                               /\ cycles'[i].position = nextPos
                               /\ done.trailGrid[old.y][old.x] = i
                               /\ \/ trailGrid'[old.y][old.x] = i
                                  \/ \E j \in (i + 1)..NumCycles :
                                        /\ cycles[j].alive /\ cycles[j].position = old
                                        /\ trailGrid'[old.y][old.x] = j
                               /\ cycles'[i].pathfindingMemory =
                                      IF Len(pushed) > 20 THEN Tail(pushed) ELSE pushed]_vars

\* a tick has just moved a cycle whose memory was full: the cell it left is
\* the newest of its 20 memory entries and holds its id
C12_Witness ==
    /\ state = PLAYING /\ lastMoveTime = now
    /\ \E i \in 1..NumCycles :
          /\ cycles[i].alive
          /\ Len(cycles[i].pathfindingMemory) = 20
          /\ cycles[i].movesSinceDirectionChange > 20
          /\ LET left == cycles[i].pathfindingMemory[20]
             IN  trailGrid[left.y][left.x] = i

(* C13 *)

\* C13: after a tick, score = 10 * floor(elapsed round seconds)
\* + 5 * (number of cycles alive after the tick's processing)
\* + (number of non-zero trail cells).
C13_ScoreFormula ==
    [][TickStep =>
          score' = 10 * ((now' - gameStartTime') \div 1000)
                   + 5 * Cardinality({i \in 1..NumCycles : cycles'[i].alive})
                   + Cardinality({c \in Cells : trailGrid'[c[1]][c[2]] # 0})]_vars

(* C14 *)

\* C14 as stated: within a round the score never decreases from one update()
\* to the next (the clock of the model only advances).
C14_ScoreNonDecreasing ==
    [][~ResetStep => score' >= score]_vars

\* the time term plus the trail term of the score at time t on trail grid tg
TimeAndTrail(t, tg) == 10 * ((t - gameStartTime) \div 1000) + trailLength(tg)

\* C14, amended: within a round an update() that is not a tick leaves the score
\* unchanged; a tick sets it to 5 * (cycles alive at tick start) + time term +
\* trail term, the trail term does not decrease, and the score drops by at most
\* 5 for every cycle that was dead at tick start.
C14_ScoreDropBounded ==
    [][(FrameStep /\ ~ResetStep) =>
          IF TickStep
          THEN /\ score' = 5 * AliveCount(cycles) + TimeAndTrail(now', trailGrid')
               /\ trailLength(trailGrid') >= trailLength(trailGrid)
               /\ score' >= score - 5 * (NumCycles - AliveCount(cycles))
          ELSE score' = score]_vars

\* a tick that started with fewer than four alive cycles has set the score
C14_Witness ==
    /\ state = PLAYING /\ lastMoveTime = now /\ now > 0
    /\ score - TimeAndTrail(now, trailGrid) < 5 * NumCycles

(* C15 *)

\* C15: from one update() to the next within a round, the number of non-zero
\* trail cells plus the number of cycles in the list (always 4, alive or dead)
\* does not decrease, and a non-zero trail cell stays non-zero.
C15_TrailNeverShrinks ==
    [][~ResetStep =>
          /\ Len(cycles) = 4 /\ Len(cycles') = 4
          /\ trailLength(trailGrid') + Len(cycles') >= trailLength(trailGrid) + Len(cycles)
          /\ \A c \in Cells :
                 trailGrid[c[1]][c[2]] # 0 => trailGrid'[c[1]][c[2]] # 0]_vars

\* a tick has just run in a round with a dead cycle whose trail is still on
\* the grid
C15_Witness ==
    /\ state = PLAYING /\ lastMoveTime = now
    /\ \E i \in 1..NumCycles :
          /\ ~cycles[i].alive
          /\ \E c \in Cells : trailGrid[c[1]][c[2]] = i

(* C16 *)

\* C16: the game has no seed among its inputs, so two runs with the same
\* placements, the same seed and the same timestamps are two runs from the same
\* state with the same update(currentTime) calls.  They agree iff a tick has one
\* outcome: every result the forEach can produce from the state at tick start
\* has the headings and the trail grid of the result this step produced.
C16_Deterministic ==
    [][TickStep =>
          \A out \in moveCycles(TickStart, aliveIds(cycles), frameCount') :
              /\ \A i \in 1..NumCycles : out.cycles[i].direction = cycles'[i].direction
              /\ out.trailGrid = trailGrid']_vars

----------------------------------------------------------------------------
(* Progress *)

\* two or more cycles are alive and the next frame is a permitted tick
TickDue ==
    /\ state = PLAYING
    /\ now + frameInterval <= TimeCap
    /\ timeToMove(now + frameInterval)
    /\ AliveCount(cycles) > 1

\* the paths of update() that move no cycle
updateWithoutTick == UpdateWaiting \/ UpdateRestart \/ UpdateIdle \/ UpdateInitiateRestart

\* The frame loop reschedules itself on every frame, so update() keeps being
\* called for as long as the clock of the model runs: weak fairness of
\* update(), stated path by path (the guards of the paths exclude each other).
\* For the tick it is spelled out, with TickDue for its enabling condition.
LiveSpec ==
    /\ Spec
    /\ WF_vars(updateWithoutTick)
    /\ ([]<>(~TickDue) \/ []<><<TickStep>>_vars)

\* What is left of a round: the trail cells still 0, the cycles still alive,
\* and 1 while the round's first tick is still to come (the spawn cells are
\* already marked, so the first tick may mark no new cell).
RoundMeasure(cs, tg, lmt) ==
    Cardinality({c \in Cells : tg[c[1]][c[2]] = 0}) + AliveCount(cs)
        + (IF lmt = 0 THEN 1 ELSE 0)

\* the clock of the model leaves room for an update() t ms from now and one
\* more frame
RoomFor(t) == now + t + frameInterval <= TimeCap

\* some path of update() can be taken with the next frame's timestamp
updatePossible ==
    \/ ENABLED updateWithoutTick
    \/ /\ TickDue
       /\ moveCycles(TickStart, aliveIds(cycles), frameCount + 1) # {}

(* C17 *)

\* C17: the state is always PLAYING or RESTARTING; an update() can always be
\* made (no stuck state); every tick strictly lowers the round's measure, which
\* is never negative, so a round cannot go on forever; the permitted update
\* with at most one cycle alive makes the state RESTARTING and the update after
\* the restart delay makes it PLAYING; hence once at most one cycle is alive
\* the state becomes RESTARTING, and from RESTARTING it becomes PLAYING again
\* (each whenever the clock of the model leaves room for the update that does
\* it).
C17_LifecycleLoops ==
    /\ [](state \in {PLAYING, RESTARTING})
    /\ [](RoomFor(0) => updatePossible)
    /\ [][TickStep =>
             /\ RoundMeasure(cycles', trailGrid', lastMoveTime') <
                    RoundMeasure(cycles, trailGrid, lastMoveTime)
             /\ RoundMeasure(cycles', trailGrid', lastMoveTime') >= 0]_vars
    /\ [][(PermittedStep /\ AliveCount(cycles) <= 1) => state' = RESTARTING]_vars
    /\ [][(FrameStep /\ state = RESTARTING /\ restartDue(now')) => state' = PLAYING]_vars
    /\ (state = PLAYING /\ AliveCount(cycles) <= 1 /\ RoomFor(speed))
           ~> (state = RESTARTING)
    /\ (state = RESTARTING /\ RoomFor(restartTime + restartDelay - now))
           ~> (state = PLAYING)

\* a second round is being played: PLAYING, then RESTARTING, then PLAYING again
C17_Witness ==
    /\ state = PLAYING
    /\ restartTime > 0 /\ gameStartTime > restartTime
    /\ lastMoveTime > 0

(* C18 *)

\* C18: every tick (two or more cycles alive, any outcome of the random
\* draws) either kills a cycle or marks a trail cell that was 0: the number of
\* 0 cells plus the number of alive cycles strictly decreases (from the second
\* tick of a round on; the first tick only moves the cycles off their marked
\* spawn cells), so after at most 364 + 4 + 1 ticks at most one cycle is alive.
\* A cycle that has no safe direction when its turn comes is dead after the
\* tick.
C18_RoundTerminates ==
    [][TickStep =>
          /\ AliveCount(cycles') <= AliveCount(cycles)
          /\ trailLength(trailGrid') >= trailLength(trailGrid)
          /\ lastMoveTime # 0 =>
                 (GridWidth * GridHeight - trailLength(trailGrid')) + AliveCount(cycles')
                     < (GridWidth * GridHeight - trailLength(trailGrid)) + AliveCount(cycles)
          /\ lastMoveTime = 0 => lastMoveTime' # 0
          /\ \A i \in 1..NumCycles :
                 (cycles[i].alive /\ getSafeDirections(StageOf(i).trailGrid, cycles[i]) = <<>>)
                     => ~cycles'[i].alive]_vars

\* a round has ended by itself: at most one cycle is left alive after a tick
C18_Witness ==
    /\ state = PLAYING /\ lastMoveTime = now
    /\ AliveCount(cycles) <= 1

(* C19 *)

\* C19: in every step other than a reset, a cycle that is dead stays in the
\* list of four cycles with its whole record unchanged (position, heading,
\* memory, counters, and alive = FALSE), and no trail cell newly holds its id.
C19_DeadStaysDead ==
    [][~ResetStep =>
          /\ Len(cycles') = Len(cycles)
          /\ \A i \in 1..NumCycles :
                 ~cycles[i].alive =>
                     /\ cycles'[i] = cycles[i]
                     /\ \A c \in Cells :
                            trailGrid'[c[1]][c[2]] = i => trailGrid[c[1]][c[2]] = i]_vars

\* a tick has been made with a dead cycle in the list: within one tick the
\* crashes are logged in ascending id, and here a cycle crashed after a cycle
\* of higher id
C19_Witness ==
    /\ state = PLAYING
    /\ \E k, l \in 1..Len(explosions) :
          /\ k < l
          /\ explosions[k].id > explosions[l].id
          /\ ~cycles[explosions[k].id].alive

(* C20 *)

\* The trail grid cycle i finds at its turn if the cycles are taken in list
\* order: the grid at tick start (tg, pre) with the cell left by every cycle
\* of ids before i that the tick moved (alive in post) marked with its id.
RECURSIVE seenBy(_, _, _, _, _)
seenBy(tg, pre, post, ids, i) ==
    IF ids = <<>> \/ Head(ids) >= i THEN tg
    ELSE LET j == Head(ids)
             left == pre[j].position
         IN  seenBy(IF post[j].alive /\ isValidPosition(left)
                    THEN [tg EXCEPT ![left.y][left.x] = j]
                    ELSE tg,
                    pre, post, Tail(ids), i)

\* C20: in every tick each cycle decides and is tested for collision on the
\* trail grid that already holds the cells written in this tick by the cycles
\* before it in ascending id, and by no cycle after it: its new heading is a
\* decision of makeAIDecision on that grid, and it is alive after the tick
\* exactly if its next cell is free on that grid.
C20_SequentialOrder ==
    [][TickStep =>
          \A i \in 1..NumCycles :
              cycles[i].alive =>
                  LET g == seenBy(trailGrid, cycles, cycles', aliveIds(cycles), i)
                      nextPos == getNextPositionInDirection(cycles[i].position,
                                                            cycles'[i].direction)
                  IN  /\ cycles'[i].direction \in makeAIDecision(g, cycles[i], RandomDraws)
                      /\ cycles'[i].alive <=> ~checkCollision(g, nextPos)]_vars

\* after a tick (not the first of the round): cycle j moved and marked the
\* cell it left, and a cycle i after it in the list moved from a cell next to
\* that cell
C20_Witness ==
    /\ state = PLAYING /\ lastMoveTime = now
    /\ \E j, i \in 1..NumCycles :
          /\ j < i
          /\ cycles[j].alive /\ Len(cycles[j].pathfindingMemory) > 1
          /\ cycles[i].alive /\ Len(cycles[i].pathfindingMemory) > 1
          /\ LET left == cycles[j].pathfindingMemory[Len(cycles[j].pathfindingMemory)]
                 from == cycles[i].pathfindingMemory[Len(cycles[i].pathfindingMemory)]
             IN  /\ trailGrid[left.y][left.x] = j
                 /\ Abs(from.x - left.x) + Abs(from.y - left.y) = 1

----------------------------------------------------------------------------
(* C21 *)

ProbePoints == {Point(px, py) : px \in (-2)..(GridWidth + 1), py \in (-2)..(GridHeight + 1)}

\* C22: in every reachable state and for every position on or around the grid,
\* checkCollision is true exactly if the position is out of bounds or its trail
\* cell is not 0; for a position out of bounds it is true whatever stands in
\* the place of the grid (here the empty tuple, which has no cell to read).
C22_FailClosed ==
    \A p \in ProbePoints :
        /\ checkCollision(trailGrid, p) <=>
               (\/ p.x < 0 \/ p.x >= 52 \/ p.y < 0 \/ p.y >= 7
                \/ trailGrid[p.y][p.x] # 0)
        /\ (p.x < 0 \/ p.x >= 52 \/ p.y < 0 \/ p.y >= 7) => checkCollision(<<>>, p)

\* a cycle that has moved stands on the border, the cell ahead of it out of
\* bounds and blocked, a cell beside it free
C22_Witness ==
    \E i \in 1..NumCycles :
        /\ cycles[i].alive /\ Len(cycles[i].pathfindingMemory) > 0
        /\ ~isValidPosition(getNextPositionInDirection(cycles[i].position,
                                                       cycles[i].direction))
        /\ checkCollision(trailGrid, getNextPositionInDirection(cycles[i].position,
                                                                cycles[i].direction))
        /\ getSafeDirections(trailGrid, cycles[i]) # <<>>

(* C23 *)

\* C23: a step from PLAYING to RESTARTING adds to the explosions exactly one
\* event for every cycle alive at that moment, at that cycle's position, and
\* none for a dead cycle, and leaves every cycle and the trail grid as they were.
C23_RestartExplosions ==
    [][(state = PLAYING /\ state' = RESTARTING) =>
          /\ cycles' = cycles
          /\ trailGrid' = trailGrid
          /\ Len(explosions') = Len(explosions) + AliveCount(cycles)
          /\ \A i \in 1..NumCycles :
                 EventsOf(explosions', i) =
                     IF cycles[i].alive
                     THEN Append(EventsOf(explosions, i),
                                 [x |-> cycles[i].position.x,
                                  y |-> cycles[i].position.y, id |-> i])
                     ELSE EventsOf(explosions, i)]_vars

\* RESTARTING with a survivor: its explosion is the last one, at its position
C23_Witness ==
    /\ state = RESTARTING
    /\ \E i \in 1..NumCycles :
          /\ cycles[i].alive
          /\ Len(explosions) > 0
          /\ explosions[Len(explosions)] =
                 [x |-> cycles[i].position.x, y |-> cycles[i].position.y, id |-> i]

(* C24 *)

\* the sorted evaluations makeAIDecision computes for the first alive cycle at
\* the next tick
nextEvaluations ==
    LET cycle == cycles[aliveIds(cycles)[1]]
    IN  sortEvaluations(evaluateDirections(trailGrid, cycle,
                                           getSafeDirections(trailGrid, cycle)))

\* C24: whenever a tick is to come and the first cycle it processes has a
\* candidate, the softmax probabilities of its candidates sum to 1 (to 1000
\* thousandths, within one thousandth per candidate).
C24_SoftmaxSumsToOne ==
    (state = PLAYING /\ AliveCount(cycles) > 1 /\ nextEvaluations # <<>>) =>
        LET total == probabilitySum(nextEvaluations, Len(nextEvaluations))
        IN  /\ total # NaN
            /\ Abs(total - 1000) <= Len(nextEvaluations)

(* C25 *)

\* draws at the two ends of [0, 1)
CornerDraws == {<<0, 1>>, <<999, 1000>>}

\* the headings other than the reverse of dir whose adjacent cell is on the
\* grid and 0 in tg
Candidates(tg, pos, dir) ==
    {h \in Direction :
        /\ UnitDelta(h).x + UnitDelta(dir).x # 0 \/ UnitDelta(h).y + UnitDelta(dir).y # 0
        /\ LET ax == pos.x + UnitDelta(h).x
               ay == pos.y + UnitDelta(h).y
           IN  /\ 0 <= ax /\ ax < GridWidth /\ 0 <= ay /\ ay < GridHeight
               /\ tg[ay][ax] = 0}

\* C25: in every tick, for every cycle processed, on the trail grid as it is
\* at the cycle's turn: the directions getSafeDirections returns are exactly
\* the headings other than the reverse of the current one whose adjacent cell
\* is not blocked; and if there is one, every heading makeAIDecision can return
\* (any draw, the ends of [0, 1) included) is one of them, as is the heading
\* the tick gave the cycle.
C25_CandidateSelection ==
    [][TickStep =>
          \A i \in 1..NumCycles :
              cycles[i].alive =>
                  LET g == StageOf(i).trailGrid
                      safe == getSafeDirections(g, cycles[i])
                      cand == Candidates(g, cycles[i].position, cycles[i].direction)
                  IN  /\ {safe[k] : k \in 1..Len(safe)} = cand
                      /\ Len(safe) = Cardinality(cand)
                      /\ cand # {} =>
                             /\ makeAIDecision(g, cycles[i], RandomDraws \cup CornerDraws)
                                    \subseteq cand
                             /\ cycles'[i].direction \in cand]_vars

\* after a tick: a cycle that had two or more candidates, the cell ahead not
\* among them, has turned
C25_Witness ==
    /\ state = PLAYING /\ lastMoveTime = now
    /\ \E i \in 1..NumCycles :
          /\ cycles[i].alive
          /\ cycles[i].lastDirectionChange = frameCount
          /\ Len(cycles[i].pathfindingMemory) > 1
          /\ LET from == cycles[i].pathfindingMemory[Len(cycles[i].pathfindingMemory)]
                 back == cycles[i].pathfindingMemory[Len(cycles[i].pathfindingMemory) - 1]
                 ahead == Point(2 * from.x - back.x, 2 * from.y - back.y)
                 other == Point(2 * from.x - cycles[i].position.x,
                                2 * from.y - cycles[i].position.y)
             IN  /\ checkCollision(trailGrid, ahead)
                 /\ ~checkCollision(trailGrid, other)

(* C26 *)

\* C26: in every tick a cycle processed is dead afterwards exactly if, on the
\* trail grid as it is at its turn, no heading other than the reverse of its
\* own has a free adjacent cell; a cycle that has such a heading is alive
\* afterwards and has moved one cell, in such a heading.
C26_DeadIffNoCandidate ==
    [][TickStep =>
          \A i \in 1..NumCycles :
              cycles[i].alive =>
                  LET cand == Candidates(StageOf(i).trailGrid, cycles[i].position,
                                         cycles[i].direction)
                  IN  /\ ~cycles'[i].alive <=> cand = {}
                      /\ cand # {} =>
                             /\ cycles'[i].direction \in cand
                             /\ cycles'[i].position =
                                    Point(cycles[i].position.x + UnitDelta(cycles'[i].direction).x,
                                          cycles[i].position.y + UnitDelta(cycles'[i].direction).y)]_vars

\* after a tick: the cycle that crashed last has no free cell beside or ahead
\* of it, and another cycle has moved on
C26_Witness ==
    /\ state = PLAYING /\ lastMoveTime = now
    /\ \E i, j \in 1..NumCycles :
          /\ ~cycles[i].alive
          /\ Candidates(trailGrid, cycles[i].position, cycles[i].direction) = {}
          /\ explosions # <<>> /\ explosions[Len(explosions)].id = i
          /\ cycles[j].alive /\ Len(cycles[j].pathfindingMemory) > 1

(* C27 *)

\* C27: in every reachable state the cell an alive cycle stands on is blocked
\* (checkCollision holds for it), and no other alive cycle stands on it.
C27_HeadCellBlocked ==
    \A i \in 1..NumCycles :
        cycles[i].alive =>
            /\ checkCollision(trailGrid, cycles[i].position)
            /\ \A j \in 1..NumCycles :
                   (j # i /\ cycles[j].alive) => cycles[j].position # cycles[i].position

(* C28 *)

\* C28: an update() while PLAYING whose timestamp is less than speed after
\* lastMoveTime changes no cycle, no trail cell, and neither score, speed,
\* state nor lastMoveTime; and a step other than a reset that changes a cycle
\* or a trail cell is an update() while PLAYING with a timestamp at least speed
\* after lastMoveTime, which becomes lastMoveTime.
C28_ClockGate ==
    /\ [][(FrameStep /\ state = PLAYING /\ now' - lastMoveTime < speed) =>
              UNCHANGED <<cycles, trailGrid, score, speed, state, lastMoveTime>>]_vars
    /\ [][(~ResetStep /\ (cycles' # cycles \/ trailGrid' # trailGrid)) =>
              /\ FrameStep /\ state = PLAYING
              /\ now' - lastMoveTime >= speed
              /\ lastMoveTime' = now']_vars

\* after a tick a frame came too early for the next one, and nothing moved
C28_Witness ==
    /\ state = PLAYING
    /\ lastMoveTime > 0 /\ now > lastMoveTime /\ now - lastMoveTime < speed
    /\ AliveCount(cycles) > 1

(* C29 *)

\* the last n entries of sequence q (all of it if it is shorter)
LastOf(q, n) == SubSeq(q, Len(q) - (IF Len(q) < n THEN Len(q) ELSE n) + 1, Len(q))

\* positions p and q are neighbouring cells
Adjacent(p, q) == Abs(p.x - q.x) + Abs(p.y - q.y) = 1

\* C29: the memory of every cycle has at most 20 entries; it is empty when a
\* round starts, a move appends the cell moved out of and keeps the last 20
\* entries, and no other step changes it, so it always is the last min(20, m)
\* cells moved out of, in order.  Accordingly in every state it is a path of
\* neighbouring cells that ends next to the cycle, and while it has fewer than
\* 20 entries it starts at the spawn cell.
C29_BoundedFifoMemory ==
    /\ [](\A i \in 1..NumCycles :
            LET mem == cycles[i].pathfindingMemory
            IN  /\ Len(mem) <= 20
                /\ frameCount = 0 => mem = <<>>
                /\ \A k \in 1..(Len(mem) - 1) : Adjacent(mem[k], mem[k + 1])
                /\ mem # <<>> => Adjacent(mem[Len(mem)], cycles[i].position)
                /\ (mem # <<>> /\ Len(mem) < 20) => mem[1] = getStartPositions[i]
                /\ mem = <<>> => cycles[i].position = getStartPositions[i])
    /\ [][~ResetStep =>
              \A i \in 1..NumCycles :
                  cycles'[i].pathfindingMemory =
                      IF cycles'[i].position # cycles[i].position
                      THEN LastOf(Append(cycles[i].pathfindingMemory, cycles[i].position), 20)
                      ELSE cycles[i].pathfindingMemory]_vars

\* a cycle has made more than 20 moves: its memory is full and the spawn cell
\* has been evicted from it
C29_Witness ==
    \E i \in 1..NumCycles :
        /\ Len(cycles[i].pathfindingMemory) = 20
        /\ \A k \in 1..20 : cycles[i].pathfindingMemory[k] # getStartPositions[i]

(* C30 *)

\* C30: every trail cell is 0 or a cycle id in 1..4.  Every spawn cell and
\* every cell a cycle has moved out of is not 0: the spawn cells and the cells
\* of every memory are not 0 in every state, and a move leaves the cell moved
\* out of not 0 (it stays so until the reset, C15).  Every cell that is not 0
\* holds the id of a cycle that has been on it: when a round starts the cells
\* that are not 0 each hold the id of the cycle standing on them, and a cell
\* whose value changes afterwards gets the id of a cycle that stood on it
\* before the step or stands on it after.
C30_TrailContent ==
    /\ [](\A c \in Cells : trailGrid[c[1]][c[2]] \in 0..4)
    /\ [](\A i \in 1..NumCycles :
            /\ trailGrid[getStartPositions[i].y][getStartPositions[i].x] # 0
            /\ \A k \in 1..Len(cycles[i].pathfindingMemory) :
                   trailGrid[cycles[i].pathfindingMemory[k].y]
                            [cycles[i].pathfindingMemory[k].x] # 0)
    /\ [](frameCount = 0 =>
            \A c \in Cells :
                trailGrid[c[1]][c[2]] # 0 =>
                    cycles[trailGrid[c[1]][c[2]]].position = Point(c[2], c[1]))
    /\ [][~ResetStep =>
              /\ \A c \in Cells :
                     trailGrid'[c[1]][c[2]] # trailGrid[c[1]][c[2]] =>
                         /\ trailGrid'[c[1]][c[2]] \in 1..NumCycles
                         /\ \/ cycles[trailGrid'[c[1]][c[2]]].position = Point(c[2], c[1])
                            \/ cycles'[trailGrid'[c[1]][c[2]]].position = Point(c[2], c[1])
              /\ \A i \in 1..NumCycles :
                     cycles'[i].position # cycles[i].position =>
                         trailGrid'[cycles[i].position.y][cycles[i].position.x] # 0]_vars

\* after the second tick or a later one: cycles 2, 3 and 4 each have their id
\* on the cell they moved out of last, which is not a spawn cell
C30_Witness ==
    /\ state = PLAYING /\ lastMoveTime = now
    /\ \A i \in 2..NumCycles :
          /\ Len(cycles[i].pathfindingMemory) > 1
          /\ LET left == cycles[i].pathfindingMemory[Len(cycles[i].pathfindingMemory)]
             IN  trailGrid[left.y][left.x] = i

----------------------------------------------------------------------------
(* C31 *)

\* the number of consecutive cells that are on the grid and 0 in tg, from cell
\* n in heading h, counting at most cap of them
FreeRun(tg, n, h, cap) ==
    Cardinality({k \in 1..cap :
                    \A j \in 0..(k - 1) :
                        LET cx == n.x + j * UnitDelta(h).x
                            cy == n.y + j * UnitDelta(h).y
                        IN  /\ 0 <= cx /\ cx < GridWidth /\ 0 <= cy /\ cy < GridHeight
                            /\ tg[cy][cx] = 0})

\* C31: in every tick, for every cycle processed and every candidate heading
\* it has on the trail grid at its turn, the features extracted for that
\* heading have avoidance = 0 and a safetyDistance from 1 to 10 that is the
\* number of consecutive unblocked cells from the next cell on, capped at 10.
C31_CandidateFeatures ==
    [][TickStep =>
          \A i \in 1..NumCycles :
              cycles[i].alive =>
                  \A g \in {StageOf(i).trailGrid} :
                      \A h \in Candidates(g, cycles[i].position, cycles[i].direction) :
                          \A f \in {extractFeatures(g, cycles[i], h)} :
                              LET n == Point(cycles[i].position.x + UnitDelta(h).x,
                                             cycles[i].position.y + UnitDelta(h).y)
                              IN  /\ f.avoidance = 0
                                  /\ 1 <= f.safetyDistance /\ f.safetyDistance <= 10
                                  /\ f.safetyDistance = FreeRun(g, n, h, 10)]_vars

\* a tick is to come in which the first cycle has a candidate with more than
\* 10 free cells ahead and a candidate with fewer than 10
C31_Witness ==
    /\ state = PLAYING /\ AliveCount(cycles) > 1 /\ lastMoveTime > 0
    /\ LET c == cycles[aliveIds(cycles)[1]]
           cand == Candidates(trailGrid, c.position, c.direction)
       IN  /\ \E h \in cand :
                  FreeRun(trailGrid, getNextPositionInDirection(c.position, h), h, 11) = 11
           /\ \E h \in cand :
                  FreeRun(trailGrid, getNextPositionInDirection(c.position, h), h, 11) < 10

(* C32 *)

\* C32: a permitted update() that finds at most one cycle alive changes no
\* cycle and no trail cell (nor score, speed, lastMoveTime, gameStartTime); it
\* sets the state to RESTARTING and the restart time to its timestamp.  And
\* from then until the reset (with at most one cycle alive, or in RESTARTING)
\* no step changes a cycle or a trail cell: the survivor stays where it is,
\* alive.
C32_LoneSurvivorTick ==
    /\ [][(PermittedStep /\ AliveCount(cycles) <= 1) =>
              /\ state' = RESTARTING
              /\ restartTime' = now'
              /\ UNCHANGED <<cycles, trailGrid, score, speed, lastMoveTime,
                             gameStartTime>>]_vars
    /\ [][(~ResetStep /\ (AliveCount(cycles) <= 1 \/ state = RESTARTING)) =>
              /\ cycles' = cycles
              /\ trailGrid' = trailGrid]_vars

\* RESTARTING, frames after it was entered, with the survivor still alive
C32_Witness ==
    /\ state = RESTARTING /\ now > restartTime
    /\ AliveCount(cycles) = 1

(* C33 *)

\* C33: outside a reset no update() raises the number of alive cycles and no
\* cycle goes from dead to alive; an alive flag changes only in a tick, and
\* there only at the cycle's own turn: the cycle is untouched by the turns
\* before its own, and the flag its own turn leaves is the flag it has after
\* the tick.
C33_AliveOnlyFalls ==
    /\ [][~ResetStep =>
              /\ AliveCount(cycles') <= AliveCount(cycles)
              /\ \A i \in 1..NumCycles : cycles'[i].alive => cycles[i].alive]_vars
    /\ [][(~ResetStep /\ ~TickStep) =>
              \A i \in 1..NumCycles : cycles'[i].alive = cycles[i].alive]_vars
    /\ [][TickStep =>
              \A i \in 1..NumCycles :
                  cycles[i].alive =>
                      \A st \in {StageOf(i)} :
                          /\ st.cycles[i] = cycles[i]
                          /\ moveCycle(st, i, cycles'[i].direction,
                                       frameCount').cycles[i].alive = cycles'[i].alive]_vars

\* after a tick in which a cycle crashed (its event is the newest) while a
\* cycle before it and a cycle after it in the list were processed and live on
C33_Witness ==
    /\ state = PLAYING /\ lastMoveTime = now
    /\ explosions # <<>>
    /\ \E i \in 1..NumCycles :
          /\ ~cycles[i].alive
          /\ explosions[Len(explosions)].id = i
          /\ \E j, k \in 1..NumCycles :
                 /\ j < i /\ i < k
                 /\ cycles[j].alive /\ cycles[k].alive

(* C34 *)

\* C34: in every reachable state, RESTARTING implies at most one cycle alive.
C34_RestartingFewAlive ==
    state = RESTARTING => AliveCount(cycles) <= 1

\* RESTARTING has just been entered with exactly one cycle alive
C34_Witness ==
    /\ state = RESTARTING /\ restartTime = now
    /\ \E i \in 1..NumCycles :
          /\ cycles[i].alive
          /\ \A j \in 1..NumCycles \ {i} : ~cycles[j].alive

(* C35 *)

\* C35: no cycle ever has more than one explosion event in the log of the
\* round; in RESTARTING every one of the four cycles has exactly one; and
\* outside a reset a cycle that has its event gets no further one, and no
\* event is taken back.
C35_OneExplosionEach ==
    /\ [](\A i \in 1..NumCycles : Len(EventsOf(explosions, i)) <= 1)
    /\ [](state = RESTARTING =>
              \A i \in 1..NumCycles : Len(EventsOf(explosions, i)) = 1)
    /\ [][~ResetStep =>
              \A i \in 1..NumCycles :
                  /\ Len(EventsOf(explosions', i)) >= Len(EventsOf(explosions, i))
                  /\ Len(EventsOf(explosions, i)) = 1 =>
                         EventsOf(explosions', i) = EventsOf(explosions, i)]_vars

\* RESTARTING, frames after the transition: three cycles crashed during the
\* round and the survivor's event, the newest, was emitted at the transition
C35_Witness ==
    /\ state = RESTARTING /\ now > restartTime
    /\ Len(explosions) = NumCycles
    /\ {explosions[k].id : k \in 1..Len(explosions)} = 1..NumCycles
    /\ cycles[explosions[NumCycles].id].alive

(* C36 *)

\* The number of most recent moves of cycle c that went in its present
\* heading, read from the cells it left (its memory) and its position.
KeptRun(c) ==
    LET path == Append(c.pathfindingMemory, c.position)
        n == Len(c.pathfindingMemory)
    IN  Cardinality({k \in 1..n :
                        \A j \in 1..k :
                            /\ path[n - j + 2].x - path[n - j + 1].x = UnitDelta(c.direction).x
                            /\ path[n - j + 2].y - path[n - j + 1].y = UnitDelta(c.direction).y})

\* C36: at the turn of every cycle alive at tick start, the turn on which it
\* dies included, movesSinceDirectionChange becomes 0 if the chosen heading
\* differs from the heading before the turn and grows by 1 otherwise; no other
\* step but a reset changes it.  So it counts the most recent turns on which
\* the cycle kept its heading: with r the number of most recent moves made in
\* the present heading, n the moves remembered and b = 1 for a cycle that has
\* crashed (its last turn moved nothing and kept the heading), the counter is
\* r - 1 + b when the move before those r is remembered, n - 1 + b or n + b
\* when all moves of the round are remembered and went in the present heading
\* (the first turn may have kept the heading of the spawn or not), and at
\* least 19 + b when the memory is full of moves in the present heading.
C36_HeadingChangeCounter ==
    /\ [][TickStep =>
              \A i \in 1..NumCycles :
                  cycles[i].alive =>
                      /\ cycles'[i].direction # cycles[i].direction =>
                             cycles'[i].movesSinceDirectionChange = 0
                      /\ cycles'[i].direction = cycles[i].direction =>
                             cycles'[i].movesSinceDirectionChange =
                                 cycles[i].movesSinceDirectionChange + 1
                      /\ ~cycles'[i].alive =>
                             cycles'[i].movesSinceDirectionChange =
                                 cycles[i].movesSinceDirectionChange + 1]_vars
    /\ [][(~TickStep /\ ~ResetStep) =>
              \A i \in 1..NumCycles :
                  cycles'[i].movesSinceDirectionChange =
                      cycles[i].movesSinceDirectionChange]_vars
    /\ [](\A i \in 1..NumCycles :
              \A r \in {KeptRun(cycles[i])} :
                  LET n == Len(cycles[i].pathfindingMemory)
                      b == IF cycles[i].alive THEN 0 ELSE 1
                      count == cycles[i].movesSinceDirectionChange
                  IN  /\ r < n => count = r - 1 + b
                      /\ (r = n /\ n < MemoryLimit) =>
                             count \in {(IF n > 0 THEN n - 1 ELSE 0) + b, n + b}
                      /\ (r = n /\ n = MemoryLimit) => count >= MemoryLimit - 1 + b)

\* a round in which one cycle has crashed after running straight for some
\* turns following a change of heading, and another has just changed heading
C36_Witness ==
    /\ state = PLAYING /\ lastMoveTime = now
    /\ \E i, j \in 1..NumCycles :
          /\ ~cycles[i].alive
          /\ cycles[i].movesSinceDirectionChange >= 2
          /\ KeptRun(cycles[i]) < Len(cycles[i].pathfindingMemory)
          /\ cycles[j].alive
          /\ cycles[j].movesSinceDirectionChange = 0
          /\ Len(cycles[j].pathfindingMemory) > 1

(* C37 *)

\* the cells next to cell n that lie on the grid and hold no trail on tg
FreeAround(tg, n) ==
    {q \in {Point(n.x + UnitDelta(k).x, n.y + UnitDelta(k).y) : k \in Direction} :
        /\ 0 <= q.x /\ q.x < GridWidth /\ 0 <= q.y /\ q.y < GridHeight
        /\ tg[q.y][q.x] = 0}

\* C37: in every tick, for every cycle processed and every candidate heading
\* d with next cell n, on the trail grid at the cycle's turn: futureOptions is
\* the number of headings other than the opposite of d whose cell next to n is
\* on the grid and free; it is between 0 and 3; and the cells it counts are
\* the free cells around n other than the cycle's current cell.
C37_FutureOptions ==
    [][TickStep =>
          \A i \in 1..NumCycles :
              cycles[i].alive =>
                  \A g \in {StageOf(i).trailGrid} :
                      \A d \in Candidates(g, cycles[i].position, cycles[i].direction) :
                          \A f \in {extractFeatures(g, cycles[i], d)} :
                              LET pos == cycles[i].position
                                  n == Point(pos.x + UnitDelta(d).x, pos.y + UnitDelta(d).y)
                                  ahead == {h \in Direction :
                                              /\ h # getOppositeDirection(d)
                                              /\ Point(n.x + UnitDelta(h).x,
                                                       n.y + UnitDelta(h).y)
                                                     \in FreeAround(g, n)}
                              IN  /\ f.futureOptions = Cardinality(ahead)
                                  /\ f.futureOptions \in 0..3
                                  /\ f.futureOptions =
                                         Cardinality(FreeAround(g, n) \ {pos})]_vars

\* a tick is to come in which the first cycle, whose own cell holds no trail,
\* has a candidate with all three cells ahead free and a candidate that leads
\* into a dead end
C37_Witness ==
    /\ state = PLAYING /\ AliveCount(cycles) > 1 /\ lastMoveTime > 0
    /\ LET c == cycles[aliveIds(cycles)[1]]
           cand == Candidates(trailGrid, c.position, c.direction)
       IN  /\ trailGrid[c.position.y][c.position.x] = 0
           /\ \E d \in cand :
                  Cardinality(FreeAround(trailGrid,
                      getNextPositionInDirection(c.position, d)) \ {c.position}) = 3
           /\ \E d \in cand :
                  Cardinality(FreeAround(trailGrid,
                      getNextPositionInDirection(c.position, d)) \ {c.position}) = 0

(* C38 *)

\* C38: in every tick, for every cycle processed and every one of the four
\* headings, on the trail grid at the cycle's turn: the features are integers
\* within their ranges (safetyDistance 0..10, openSpace 0..24, edgeDistance
\* at most 3, pathDiversity 0..10, continuity, exploration and avoidance 0 or
\* 1, futureOptions 0..3) and the score is the integer
\* 15*safetyDistance + 8*openSpace + 5*edgeDistance + 3*pathDiversity
\* + 2*continuity + 4*exploration - 20*avoidance + 6*futureOptions.
C38_ScoreIsWeightedSum ==
    [][TickStep =>
          \A i \in 1..NumCycles :
              cycles[i].alive =>
                  \A g \in {StageOf(i).trailGrid} :
                      \A d \in Direction :
                          \A f \in {extractFeatures(g, cycles[i], d)} :
                              \A sc \in {neuralEvaluateDirection(g, cycles[i], d)} :
                                  /\ f.safetyDistance \in 0..10
                                  /\ f.openSpace \in 0..24
                                  /\ f.edgeDistance \in Int /\ f.edgeDistance <= 3
                                  /\ f.pathDiversity \in 0..10
                                  /\ f.continuity \in 0..1
                                  /\ f.exploration \in 0..1
                                  /\ f.avoidance \in 0..1
                                  /\ f.futureOptions \in 0..3
                                  /\ sc \in Int
                                  /\ sc - 15 * f.safetyDistance - 8 * f.openSpace
                                        - 5 * f.edgeDistance - 3 * f.pathDiversity
                                        - 2 * f.continuity - 4 * f.exploration
                                        - 6 * f.futureOptions
                                     = IF f.avoidance = 1 THEN -20 ELSE 0]_vars

\* a tick is to come in which the first cycle has a heading that keeps its
\* direction and scores more than 350, a heading that turns and scores less
\* than 300, and a blocked heading, which carries the avoidance penalty
C38_Witness ==
    /\ state = PLAYING /\ AliveCount(cycles) > 1 /\ lastMoveTime > 0
    /\ LET c == cycles[aliveIds(cycles)[1]]
       IN  /\ neuralEvaluateDirection(trailGrid, c, c.direction) > 350
           /\ \E d \in Direction \ {c.direction} :
                  /\ extractFeatures(trailGrid, c, d).avoidance = 0
                  /\ neuralEvaluateDirection(trailGrid, c, d) < 300
           /\ \E d \in Direction \ {c.direction} :
                  extractFeatures(trailGrid, c, d).avoidance = 1

====
